---- MODULE Spec2Model ----
(***************************************************************************)
(* Custom raster render and composite export pipeline of the imagery       *)
(* explorer: the rendering-rule serializer, the composite layer            *)
(* (CompositeLayer.tsx), the custom renderer image overlay                  *)
(* (CustomRendererImageOverlay.tsx) and the thumbnail capture workflow      *)
(* around the Renderers store.                                              *)
(*                                                                         *)
(* The specifications share the module's variables; each one moves its     *)
(* own group of variables and leaves the others at their initial value:    *)
(*   SpecSer    the serializer createOrderedRenderingRuleString             *)
(*   SpecCL     the CompositeLayer component (fetch, decode, layer, blobs)  *)
(*   SpecMR     the scene selection and the mosaic rules                    *)
(*   SpecOV     the CustomRendererImageOverlay component                    *)
(*   SpecCap    the Renderers store and the screenshot capture effects      *)
(*   FairSpecCap  SpecCap, where every await of a workflow settles          *)
(*   SpecCapCb  SpecCap with the overlay's call of onCaptureScreenshot      *)
(*   SpecRen    the Renderers store with the loading and deleting handlers *)
(*   SpecBm     the Bookmarks store                                         *)
(***************************************************************************)
EXTENDS Integers, Sequences, FiniteSets, TLC

VARIABLES
    \* ---- serializer ----
    rule,       \* the rendering-rule value handed to the serializer
    out,        \* the token sequence the serializer produced (<<>>: not run yet)
    normalizedOut,  \* the text of JSON.stringify(normalizeRasterFunctionOrder(rule))
    \* ---- ImageryScene store and the map, as CompositeLayer reads them ----
    compositeSceneIds,   \* sequence of scene identifiers
    compositeMethod,     \* aggregation method
    showCompositeLayer,  \* BOOLEAN
    rasterFunctionName,  \* the selected renderer (queryParams.rasterFunctionName)
    clMapView,           \* BOOLEAN: the mapView prop is defined
    clGroupLayer,        \* BOOLEAN: the groupLayer prop is defined
    clExtentOk,          \* BOOLEAN: mapView.extent, width and height are set
    \* ---- CompositeLayer component ----
    clPhase,             \* "new", "mounted", "unmounted"
    clLayerRef,          \* layerRef.current (0: null)
    clLayer,             \* the layer state of useState (0: null)
    clFxAdd,             \* BOOLEAN: a render with a new layer state awaits its effects
    clAbortRef,          \* abortControllerRef.current: the job it belongs to (0: null)
    clBlobUrls,          \* blobUrlsRef.current: the set of blob URLs pushed
    clJobs,              \* the calls of createCustomRendererLayer, by id
    clNextId,            \* next id of a job or layer
    clAttached,          \* the layers groupLayer holds
    clRevoked,           \* per blob URL, how often URL.revokeObjectURL was called
    \* ---- Renderers store, Firebase user and the capture workflows ----
    pendingScreenshotRendererId,  \* renderer id awaiting a thumbnail (0: null)
    customRenderers,     \* per custom renderer id, its image (<<>>: none)
    rendererDocs,        \* per renderer id, the image of its Firestore document
    firebaseUser,        \* the signed-in user (0: null)
    capRasterFunction,   \* the selected renderer: a custom renderer id, 0: a built-in one
    capMapView,          \* BOOLEAN: the mapView prop is defined
    capLayer,            \* the layer state of CompositeLayer (0: null)
    ilLayer,             \* the layer state of useImageryLayerByObjectId (0: null)
    capOverlay,          \* BOOLEAN: the custom renderer image overlay is on the map
    capReq,              \* how many capture requests were made so far
    capW,                \* the capture workflows started, by index
    capNextW,            \* index of the next workflow
    \* ---- the mosaic rules, as the components' useMemo hooks hold them ----
    mrSelection,         \* compositeSceneIds of the rule builder
    mrMethod,            \* compositeMethod of the rule builder
    mrCompositeRule,     \* compositeMosaicRule of this render
    mrObjectId,          \* the objectId last handed to getLockRasterMosaicRule
    mrLockRule,          \* getLockRasterMosaicRule(objectId) of this render
    mrClick,             \* the keys of the click handleSceneSelection handled last
    \* ---- CustomRendererImageOverlay component ----
    ovPhase,             \* "new", "mounted", "unmounted"
    ovMapView,           \* BOOLEAN: the mapView prop is defined
    ovCleanupView,       \* BOOLEAN: the mapView the unmount cleanup closed over is defined
    ovVisible,           \* the visible prop
    ovExtentOk,          \* BOOLEAN: mapView.extent, width and height are set
    ovLayerRef,          \* layerRef.current (0: null)
    ovAbortRef,          \* abortControllerRef.current: the call it belongs to (0: null)
    ovJobs,              \* the calls of fetchImage, by id
    ovNextId,            \* next id of a call
    ovAttached,          \* the layers of this component that mapView.map holds
    ovLoading,           \* the value last passed to onLoadingChange
    ovBlobUrls,          \* the blob URLs created and not revoked
    \* ---- Renderers store and the handlers that load and delete renderers ----
    renLoading,          \* RenderersState.loading
    renLoads,            \* the calls of loadRenderers, by id: "none", "fetch", "loaded", "failed"
    renNextLoad,         \* next id of a call of loadRenderers
    renDeletes,          \* the renderer ids whose deleteRenderer is awaited
    renCaptures,         \* the renderer ids whose handleLayerUpdate is running
    \* ---- Bookmarks store ----
    projects,            \* BookmarksState.projects (ids)
    selectedProjectId,   \* 0: null
    bookmarks,           \* BookmarksState.bookmarks (ids)
    selectedBookmarkId,  \* 0: null
    loadingProjects,
    loadingBookmarks,
    bmLast               \* the type of the action dispatched last

serVars == <<rule, out, normalizedOut>>
storeVars == <<compositeSceneIds, compositeMethod, showCompositeLayer, rasterFunctionName>>
viewVars == <<clMapView, clGroupLayer, clExtentOk>>
compVars == <<clPhase, clLayerRef, clLayer, clFxAdd, clAbortRef, clBlobUrls, clJobs,
              clNextId, clAttached, clRevoked>>
clVars == <<storeVars, viewVars, compVars>>
capVars == <<pendingScreenshotRendererId, customRenderers, rendererDocs, firebaseUser,
             capRasterFunction,
             capMapView, capLayer, ilLayer, capOverlay, capReq, capW, capNextW>>
mrVars == <<mrSelection, mrMethod, mrCompositeRule, mrObjectId, mrLockRule, mrClick>>
ovVars == <<ovPhase, ovMapView, ovCleanupView, ovVisible, ovExtentOk, ovLayerRef, ovAbortRef,
            ovJobs, ovNextId, ovAttached, ovLoading, ovBlobUrls>>
renVars == <<renLoading, renLoads, renNextLoad, renDeletes, renCaptures>>
bmVars == <<projects, selectedProjectId, bookmarks, selectedBookmarkId, loadingProjects,
            loadingBookmarks, bmLast>>
vars == <<serVars, clVars, capVars, mrVars, ovVars, renVars, bmVars>>
\* what the actions of one group leave alone
notSer == <<clVars, capVars, mrVars, ovVars, renVars, bmVars>>
notCL == <<serVars, capVars, mrVars, ovVars, renVars, bmVars>>
notCap == <<serVars, clVars, mrVars, ovVars, renVars, bmVars>>
notMR == <<serVars, clVars, capVars, ovVars, renVars, bmVars>>
notOV == <<serVars, clVars, capVars, mrVars, renVars, bmVars>>
notRen == <<serVars, clVars, mrVars, ovVars, bmVars,
            capMapView, capLayer, ilLayer, capOverlay, capReq, capW, capNextW>>
notBm == <<serVars, clVars, capVars, mrVars, ovVars, renVars>>

(***************************************************************************)
(* JSON values.  A value is a pair <<tag, payload>>:                        *)
(*   <<"str", s>>   a string s                                              *)
(*   <<"lit", t>>   a number, boolean or null whose JSON text is t          *)
(*   <<"arr", q>>   an array, q the sequence of its elements                *)
(*   <<"obj", q>>   an object, q the sequence of its <<key, value>> pairs   *)
(*                  in insertion order (the order Object.keys returns)      *)
(* The serializer's output is a sequence of tokens, one per piece of text   *)
(* the code concatenates:                                                   *)
(*   <<"P", c>>     the punctuation c: { } [ ] , :                          *)
(*   <<"K", k>>     "k"   a key written between quotes, as is               *)
(*   <<"S", s>>     "s"   text written between quotes, as is                *)
(*   <<"J", t>>     the text t of JSON.stringify of a scalar                *)
(***************************************************************************)
Tag(v) == v[1]
Payload(v) == v[2]

RF == "rasterFunction"
RFA == "rasterFunctionArguments"

P(c) == <<"P", c>>

\* value.replace(/\\/g, '\\\\').replace(/"/g, '\\"') on the sample strings
Escaped(s) ==
    CASE s = "q\"t" -> "q\\\"t"
      [] s = "b\\s" -> "b\\\\s"
      [] OTHER -> s

\* JSON.stringify of a scalar: a string is quoted and escaped, the others
\* are written as their JSON text
JSONStringifyScalar(v) ==
    IF Tag(v) = "str" THEN <<"S", Escaped(Payload(v))>> ELSE <<"J", Payload(v)>>

\* the template literal ${obj.rasterFunction}: String(value), not escaped
TemplateString(v) ==
    CASE Tag(v) = "str" -> Payload(v)
      [] Tag(v) = "lit" -> Payload(v)
      [] Tag(v) = "arr" -> "<array joined by commas>"
      [] OTHER -> "[object Object]"

HasKey(pairs, k) == \E i \in 1..Len(pairs) : pairs[i][1] = k
ValueOf(pairs, k) == pairs[CHOOSE i \in 1..Len(pairs) : pairs[i][1] = k][2]

RECURSIVE JoinTokens(_)
\* parts.join(','): the parts separated by a comma token
JoinTokens(parts) ==
    IF Len(parts) = 0 THEN <<>>
    ELSE IF Len(parts) = 1 THEN parts[1]
    ELSE parts[1] \o <<P(",")>> \o JoinTokens(Tail(parts))

\* parts.push(`"rasterFunction":"${obj.rasterFunction}"`) when the key exists
RasterFunctionFirst(pairs) ==
    IF HasKey(pairs, RF)
    THEN << <<<<"K", RF>>, P(":"), <<"S", TemplateString(ValueOf(pairs, RF))>>>> >>
    ELSE <<>>

RECURSIVE StringifyInKeyOrder(_)
\* an encoder that writes every key where Object.keys yields it
StringifyInKeyOrder(v) ==
    IF Tag(v) \in {"str", "lit"}
    THEN <<JSONStringifyScalar(v)>>
    ELSE IF Tag(v) = "arr"
    THEN <<P("[")>>
         \o JoinTokens([i \in 1..Len(Payload(v)) |-> StringifyInKeyOrder(Payload(v)[i])])
         \o <<P("]")>>
    ELSE <<P("{")>>
         \o JoinTokens([i \in 1..Len(Payload(v)) |->
                           <<<<"K", Payload(v)[i][1]>>, P(":")>>
                           \o StringifyInKeyOrder(Payload(v)[i][2])])
         \o <<P("}")>>

RECURSIVE createOrderedRenderingRuleString(_)
RECURSIVE OtherProperties(_)
\* Object.keys(obj).forEach: every key but rasterFunction, in key order
OtherProperties(pairs) ==
    IF Len(pairs) = 0 THEN <<>>
    ELSE LET key == pairs[1][1]
             value == pairs[1][2]
             part ==
               IF Tag(value) \in {"obj", "arr"} \/ value = <<"lit", "null">>
               THEN <<<<"K", key>>, P(":")>> \o createOrderedRenderingRuleString(value)
               ELSE IF Tag(value) = "str"
               THEN <<<<"K", key>>, P(":"), <<"S", Escaped(Payload(value))>>>>
               ELSE <<<<"K", key>>, P(":"), JSONStringifyScalar(value)>>
         IN IF key = RF THEN OtherProperties(Tail(pairs))
            ELSE <<part>> \o OtherProperties(Tail(pairs))

createOrderedRenderingRuleString(obj) ==
    IF Tag(obj) \in {"str", "lit"}
    THEN <<JSONStringifyScalar(obj)>>
    ELSE IF Tag(obj) = "arr"
    THEN <<P("[")>>
         \o JoinTokens([i \in 1..Len(Payload(obj)) |->
                           createOrderedRenderingRuleString(Payload(obj)[i])])
         \o <<P("]")>>
    ELSE <<P("{")>>
         \o JoinTokens(RasterFunctionFirst(Payload(obj))
                       \o OtherProperties(Payload(obj)))
         \o <<P("}")>>

\* JSON.stringify of a value: every key where the object holds it
JSONStringify(v) == StringifyInKeyOrder(v)

RECURSIVE normalizeRasterFunctionOrder(_)
\* a copy of obj with rasterFunction as its first key; the values under
\* the other keys are normalized when they are objects, and the items of an
\* array value are handed to the function one by one.  Anything that is no
\* plain object, an array included, is returned as it is.
normalizeRasterFunctionOrder(obj) ==
    IF Tag(obj) # "obj" THEN obj
    ELSE LET pairs == Payload(obj)
             first == IF HasKey(pairs, RF) THEN << <<RF, ValueOf(pairs, RF)>> >> ELSE <<>>
             others == SelectSeq(pairs, LAMBDA p : p[1] # RF)
             Normalized(v) ==
                 CASE Tag(v) = "obj" -> normalizeRasterFunctionOrder(v)
                   [] Tag(v) = "arr" ->
                        <<"arr", [i \in 1..Len(Payload(v)) |->
                                     normalizeRasterFunctionOrder(Payload(v)[i])]>>
                   [] OTHER -> v
         IN <<"obj", first \o [i \in 1..Len(others) |->
                                  <<others[i][1], Normalized(others[i][2])>>]>>

\* What a JSON decoder makes of the rendering-rule text.  A quoted text is a
\* string literal only if every quote and backslash in it is escaped (\" and
\* \\); the decoder then removes the escapes.  A text between quotes that
\* holds a bare quote, or a backslash before another character, is malformed.
\* The result is <<TRUE, value>> or <<FALSE, <<>>>>; an object's pairs come
\* in the order of the text.
JSONParse(text) ==
    LET WellFormed(s) == s \notin {"q\"t", "b\\s"}
        Unescaped(s) ==
            CASE s = "q\\\"t" -> "q\"t"
              [] s = "b\\\\s" -> "b\\s"
              [] OTHER -> s
        Bad == [ok |-> FALSE, v |-> <<>>, next |-> 0]
        Tok(i) == IF i \in 1..Len(text) THEN text[i] ELSE <<"end", "">>
        RECURSIVE Value(_)
        RECURSIVE Elements(_, _)
        RECURSIVE Members(_, _)
        Value(i) ==
            CASE Tok(i)[1] = "S" ->
                   IF WellFormed(Tok(i)[2])
                   THEN [ok |-> TRUE, v |-> <<"str", Unescaped(Tok(i)[2])>>, next |-> i + 1]
                   ELSE Bad
              [] Tok(i)[1] = "J" ->
                   [ok |-> TRUE, v |-> <<"lit", Tok(i)[2]>>, next |-> i + 1]
              [] Tok(i) = P("[") ->
                   IF Tok(i + 1) = P("]")
                   THEN [ok |-> TRUE, v |-> <<"arr", <<>>>>, next |-> i + 2]
                   ELSE Elements(i + 1, <<>>)
              [] Tok(i) = P("{") ->
                   IF Tok(i + 1) = P("}")
                   THEN [ok |-> TRUE, v |-> <<"obj", <<>>>>, next |-> i + 2]
                   ELSE Members(i + 1, <<>>)
              [] OTHER -> Bad
        Elements(i, acc) ==
            LET e == Value(i)
            IN IF ~e.ok THEN Bad
               ELSE IF Tok(e.next) = P(",")
               THEN Elements(e.next + 1, Append(acc, e.v))
               ELSE IF Tok(e.next) = P("]")
               THEN [ok |-> TRUE, v |-> <<"arr", Append(acc, e.v)>>, next |-> e.next + 1]
               ELSE Bad
        Members(i, acc) ==
            IF ~(Tok(i)[1] = "K" /\ WellFormed(Tok(i)[2]) /\ Tok(i + 1) = P(":"))
            THEN Bad
            ELSE LET e == Value(i + 2)
                     pair == <<Unescaped(Tok(i)[2]), e.v>>
                 IN IF ~e.ok THEN Bad
                    ELSE IF Tok(e.next) = P(",")
                    THEN Members(e.next + 1, Append(acc, pair))
                    ELSE IF Tok(e.next) = P("}")
                    THEN [ok |-> TRUE, v |-> <<"obj", Append(acc, pair)>>,
                          next |-> e.next + 1]
                    ELSE Bad
        r == Value(1)
    IN IF r.ok /\ r.next = Len(text) + 1 THEN <<TRUE, r.v>> ELSE <<FALSE, <<>>>>

RECURSIVE SameJSON(_, _)
\* two JSON values are the same value: scalars are equal, arrays are equal
\* element by element, objects have the same keys with the same values
\* (the order of an object's keys is not part of the value)
SameJSON(a, b) ==
    CASE Tag(a) # Tag(b) -> FALSE
      [] Tag(a) \in {"str", "lit"} -> a = b
      [] Tag(a) = "arr" ->
           /\ Len(Payload(a)) = Len(Payload(b))
           /\ \A i \in 1..Len(Payload(a)) : SameJSON(Payload(a)[i], Payload(b)[i])
      [] OTHER ->
           /\ Len(Payload(a)) = Len(Payload(b))
           /\ \A i \in 1..Len(Payload(a)) :
                /\ HasKey(Payload(b), Payload(a)[i][1])
                /\ SameJSON(Payload(a)[i][2], ValueOf(Payload(b), Payload(a)[i][1]))

(***************************************************************************)
(* The serializer's specification: a rendering rule is drawn from the      *)
(* leaves, nested into objects and arrays, and serialized.                  *)
(***************************************************************************)
MaxDepth == 3

Scalars == {<<"str", "X">>, <<"str", "b\\s">>, <<"lit", "1">>, <<"lit", "null">>}
FunctionNames == {<<"str", "Agriculture">>, <<"lit", "1">>, <<"str", "q\"t">>}
Keys == {RF, RFA, "a"}

\* the sequences of distinct keys, of one to n keys
KeyOrders(n) ==
    {q \in UNION {[1..m -> Keys] : m \in 1..n} :
        \A i, j \in 1..Len(q) : i # j => q[i] # q[j]}

\* an object with the keys q, a function name under rasterFunction and the
\* value child under the key at position pos (0: no child)
ObjectOf(q, pos, child, fn, sc) ==
    <<"obj", [i \in 1..Len(q) |->
                <<q[i], IF i = pos THEN child
                        ELSE IF q[i] = RF THEN fn ELSE sc>>]>>

Leaves ==
    Scalars
    \cup {<<"arr", <<>>>>, <<"obj", <<>>>>}
    \cup {ObjectOf(q, 0, <<"lit", "1">>, fn, <<"str", "X">>) :
              q \in KeyOrders(3), fn \in FunctionNames}

ArraySiblings ==
    {<<"lit", "1">>, <<"obj", <<<<"a", <<"str", "X">>>>, <<RF, <<"str", "Agriculture">>>>>>>>}

RECURSIVE DepthOf(_)
RECURSIVE MaxDepthOf(_)
MaxDepthOf(vs) ==
    IF Len(vs) = 0 THEN 0
    ELSE LET d == DepthOf(vs[1])
             r == MaxDepthOf(Tail(vs))
         IN IF d > r THEN d ELSE r
DepthOf(v) ==
    CASE Tag(v) = "arr" -> 1 + MaxDepthOf(Payload(v))
      [] Tag(v) = "obj" ->
           1 + MaxDepthOf([i \in 1..Len(Payload(v)) |-> Payload(v)[i][2]])
      [] OTHER -> 0

SerStart ==
    /\ rule \in Leaves
    /\ out = <<>>
    /\ normalizedOut = <<>>

SerIdle ==
    /\ rule = <<"lit", "null">>
    /\ out = <<>>
    /\ normalizedOut = <<>>

\* the rule becomes the value of one key of a new object
SerNestInObject ==
    /\ out = <<>> /\ normalizedOut = <<>>
    /\ DepthOf(rule) < MaxDepth
    /\ \E q \in KeyOrders(2) :
         \E pos \in 1..Len(q) :
            /\ q[pos] # RF
            /\ rule' = ObjectOf(q, pos, rule, <<"str", "Agriculture">>, <<"lit", "1">>)
    /\ UNCHANGED <<out, normalizedOut, notSer>>

\* the rule becomes an element of a new array
SerNestInArray ==
    /\ out = <<>> /\ normalizedOut = <<>>
    /\ DepthOf(rule) < MaxDepth
    /\ \E sibling \in ArraySiblings :
         rule' \in {<<"arr", <<rule>>>>, <<"arr", <<sibling, rule>>>>}
    /\ UNCHANGED <<out, normalizedOut, notSer>>

\* const renderingRuleString = createOrderedRenderingRuleString(definition)
SerSerialize ==
    /\ out = <<>>
    /\ out' = createOrderedRenderingRuleString(rule)
    /\ UNCHANGED <<rule, normalizedOut, notSer>>

\* rasterFunctionConfig = normalizeRasterFunctionOrder(rasterFunctionConfig),
\* then JSON.stringify(rasterFunctionConfig)
SerNormalize ==
    /\ normalizedOut = <<>>
    /\ normalizedOut' = JSONStringify(normalizeRasterFunctionOrder(rule))
    /\ UNCHANGED <<rule, out, notSer>>

SerNext == SerNestInObject \/ SerNestInArray \/ SerSerialize \/ SerNormalize

(***************************************************************************)
(* CompositeLayer.tsx.  Jobs and layers share one id space: the call of     *)
(* createCustomRendererLayer with id j fetches the blob URL j and, when it  *)
(* commits, creates the MediaLayer j; an ImageryLayer takes the next id.    *)
(***************************************************************************)
MaxJobs == 2

SceneIds == {101, 102}
Methods == {"min", "mean"}
BuiltInRenderers == {"Natural Color"}
CustomRenderers == {"Custom A"}
Renderers == BuiltInRenderers \cup CustomRenderers

Ids == 1..MaxJobs

NoJob ==
    [stage |-> "none", aborted |-> FALSE, gl |-> FALSE, ids |-> <<>>, shown |-> {}]

\* queryParams.rasterFunctionDefinition is set for the custom renderers only
isCustomRenderer(name) == name \in CustomRenderers

NoRule ==
    [method |-> "none", ascending |-> FALSE, lockRasterIds |-> <<>>,
     operation |-> "none", where |-> {}]

\* a lock rule that keeps the default ascending order
getLockRasterMosaicRuleAscending(objectId) ==
    IF objectId = 0 THEN NoRule
    ELSE [method |-> "lock-raster", ascending |-> TRUE, lockRasterIds |-> <<objectId>>,
          operation |-> "none", where |-> {objectId}]

\* getLockRasterMosaicRule: the rule that locks to one raster
getLockRasterMosaicRule(objectId) ==
    IF objectId = 0 THEN NoRule
    ELSE [method |-> "lock-raster", ascending |-> FALSE, lockRasterIds |-> <<objectId>>,
          operation |-> "none", where |-> {objectId}]

\* the service's name of a method, as a mosaicOperationMap would give it
mosaicOperationMap(m) ==
    CASE m = "first" -> "MT_FIRST"
      [] m = "last" -> "MT_LAST"
      [] m = "min" -> "MT_MIN"
      [] m = "max" -> "MT_MAX"
      [] m = "mean" -> "MT_MEAN"
      [] m = "blend" -> "MT_BLEND"
      [] m = "sum" -> "MT_SUM"
      [] OTHER -> "none"

\* a composite rule tagged with the mapped name instead of the method
compositeMosaicRuleMapped(ids, m) ==
    IF Len(ids) = 0 THEN NoRule
    ELSE [method |-> "lock-raster", ascending |-> FALSE, lockRasterIds |-> ids,
          operation |-> mosaicOperationMap(m), where |-> {ids[i] : i \in 1..Len(ids)}]

\* useMemo: the mosaic rule of the composite
compositeMosaicRule(ids, m) ==
    IF Len(ids) = 0 THEN NoRule
    ELSE [method |-> "lock-raster", ascending |-> FALSE, lockRasterIds |-> ids,
          operation |-> m, where |-> {ids[i] : i \in 1..Len(ids)}]

\* the jobs that await the network or the image decode
InFlight(jobs) == {j \in Ids : jobs[j].stage \in {"fetch", "decode"}}

\* a createCustomRendererLayer that starts its request without cancelling
\* the previous one
createCustomRendererLayerNoAbort(ab, jobs, nid, mv, ids, ren, m, gl, ok, shown) ==
    IF ~mv \/ ~isCustomRenderer(ren)
    THEN [ab |-> ab, jobs |-> jobs, nid |-> nid]
    ELSE [ab |-> nid,
          jobs |-> [jobs EXCEPT ![nid] =
                       [stage |-> IF ok THEN "fetch" ELSE "skipped",
                        aborted |-> FALSE, gl |-> gl, ids |-> ids, shown |-> shown]],
          nid |-> nid + 1]

(***************************************************************************)
(* createCustomRendererLayer, up to its first await.  mv, ids, ren, m and   *)
(* gl are the values its closure holds; the result is the new abort         *)
(* controller reference, the jobs and the next id.                          *)
(***************************************************************************)
createCustomRendererLayer(ab, jobs, nid, mv, ids, ren, m, gl, ok, shown) ==
    IF ~mv \/ ~isCustomRenderer(ren)
    THEN [ab |-> ab, jobs |-> jobs, nid |-> nid]
    ELSE LET cancelled == IF ab # 0 THEN [jobs EXCEPT ![ab].aborted = TRUE] ELSE jobs
         IN [ab |-> nid,
             jobs |-> [cancelled EXCEPT ![nid] =
                          [stage |-> IF ok THEN "fetch" ELSE "skipped",
                           aborted |-> FALSE, gl |-> gl, ids |-> ids, shown |-> shown]],
             nid |-> nid + 1]

\* groupLayer.remove(layerRef.current) under "if (layerRef.current && groupLayer)"
RemoveOld(attached, ref, gl) == IF ref # 0 /\ gl THEN attached \ {ref} ELSE attached

(***************************************************************************)
(* The layer initialization effect, run with the values of the render that *)
(* scheduled it.  The result holds the component's fields after it.         *)
(***************************************************************************)
InitEffect(show, ids, ren, m, mv, gl, ok) ==
    LET cleared == clLayerRef # 0 /\ gl
        attached1 == RemoveOld(clAttached, clLayerRef, gl)
        ref1 == IF cleared THEN 0 ELSE clLayerRef
    IN IF show /\ compositeMosaicRule(ids, m) # NoRule
       THEN IF isCustomRenderer(ren)
            THEN LET r == createCustomRendererLayer(clAbortRef, clJobs, clNextId,
                                                    mv, ids, ren, m, gl, ok, clAttached)
                 IN [ref |-> ref1, layer |-> clLayer, attached |-> attached1,
                     ab |-> r.ab, jobs |-> r.jobs, nid |-> r.nid]
            ELSE [ref |-> clNextId, layer |-> clNextId, attached |-> attached1,
                  ab |-> clAbortRef,
                  jobs |-> [clJobs EXCEPT ![clNextId].stage = "imagery"],
                  nid |-> clNextId + 1]
       ELSE [ref |-> ref1, layer |-> IF cleared THEN 0 ELSE clLayer,
             attached |-> attached1, ab |-> clAbortRef, jobs |-> clJobs,
             nid |-> clNextId]

\* the fields of the component after a render whose effects are e; the
\* effect that adds the layer runs in a later render when the layer changed
ApplyEffects(e) ==
    /\ clLayerRef' = e.ref
    /\ clLayer' = e.layer
    /\ clAttached' = e.attached
    /\ clAbortRef' = e.ab
    /\ clJobs' = e.jobs
    /\ clNextId' = e.nid
    /\ clFxAdd' = (clFxAdd \/ e.layer # clLayer)

CLStart ==
    /\ compositeSceneIds = <<>>
    /\ compositeMethod = "min"
    /\ showCompositeLayer \in BOOLEAN
    /\ rasterFunctionName \in Renderers
    /\ clMapView \in BOOLEAN
    /\ clGroupLayer \in BOOLEAN
    /\ clExtentOk \in BOOLEAN
    /\ clPhase = "new"
    /\ clLayerRef = 0
    /\ clLayer = 0
    /\ clFxAdd = FALSE
    /\ clAbortRef = 0
    /\ clBlobUrls = {}
    /\ clJobs = [j \in Ids |-> NoJob]
    /\ clNextId = 1
    /\ clAttached = {}
    /\ clRevoked = [u \in Ids |-> 0]

CLIdle ==
    /\ compositeSceneIds = <<>>
    /\ compositeMethod = "min"
    /\ showCompositeLayer = FALSE
    /\ rasterFunctionName = "Natural Color"
    /\ clMapView = FALSE
    /\ clGroupLayer = FALSE
    /\ clExtentOk = FALSE
    /\ clPhase = "new"
    /\ clLayerRef = 0
    /\ clLayer = 0
    /\ clFxAdd = FALSE
    /\ clAbortRef = 0
    /\ clBlobUrls = {}
    /\ clJobs = [j \in Ids |-> NoJob]
    /\ clNextId = 1
    /\ clAttached = {}
    /\ clRevoked = [u \in Ids |-> 0]

\* the first render: every effect runs once
CLMount ==
    /\ clPhase = "new"
    /\ clPhase' = "mounted"
    /\ ApplyEffects(InitEffect(showCompositeLayer, compositeSceneIds, rasterFunctionName,
                               compositeMethod, clMapView, clGroupLayer, clExtentOk))
    /\ UNCHANGED <<notCL, storeVars, viewVars, clBlobUrls, clRevoked>>

\* a store change re-renders the component; the initialization effect has
\* every changed value among its dependencies
StoreChange(show, ids, ren, m) ==
    /\ clPhase = "mounted"
    /\ clNextId <= MaxJobs
    /\ <<show, ids, ren, m>> #
          <<showCompositeLayer, compositeSceneIds, rasterFunctionName, compositeMethod>>
    /\ showCompositeLayer' = show
    /\ compositeSceneIds' = ids
    /\ rasterFunctionName' = ren
    /\ compositeMethod' = m
    /\ ApplyEffects(InitEffect(show, ids, ren, m, clMapView, clGroupLayer, clExtentOk))
    /\ UNCHANGED <<notCL, viewVars, clPhase, clBlobUrls, clRevoked>>

\* handleSceneSelection, a plain click: toggle one scene
CLSelectScene ==
    \E id \in SceneIds :
        StoreChange(showCompositeLayer,
                    IF \E i \in 1..Len(compositeSceneIds) : compositeSceneIds[i] = id
                    THEN SelectSeq(compositeSceneIds, LAMBDA x : x # id)
                    ELSE Append(compositeSceneIds, id),
                    rasterFunctionName, compositeMethod)

\* compositeMethodChanged
CLSelectMethod ==
    \E m \in Methods :
        StoreChange(showCompositeLayer, compositeSceneIds, rasterFunctionName, m)

\* updateRasterFunctionName(name, definition)
CLSelectRenderer ==
    \E ren \in Renderers :
        StoreChange(showCompositeLayer, compositeSceneIds, ren, compositeMethod)

\* the composite layer is switched on or off
CLToggleShow ==
    StoreChange(~showCompositeLayer, compositeSceneIds, rasterFunctionName, compositeMethod)

\* the parent passes the map view: the initialization effect runs again
\* (createCustomRendererLayer changed)
CLMapViewArrives ==
    /\ clPhase = "mounted"
    /\ clNextId <= MaxJobs
    /\ ~clMapView
    /\ clMapView' = TRUE
    /\ ApplyEffects(InitEffect(showCompositeLayer, compositeSceneIds, rasterFunctionName,
                               compositeMethod, TRUE, clGroupLayer, clExtentOk))
    /\ UNCHANGED <<notCL, storeVars, clGroupLayer, clExtentOk, clPhase, clBlobUrls, clRevoked>>

\* the parent passes the group layer: the initialization effect runs, then
\* the effect that adds the layer of this render's layer state
CLGroupLayerArrives ==
    /\ clPhase = "mounted"
    /\ clNextId <= MaxJobs
    /\ ~clGroupLayer
    /\ clGroupLayer' = TRUE
    /\ LET e == InitEffect(showCompositeLayer, compositeSceneIds, rasterFunctionName,
                           compositeMethod, clMapView, TRUE, clExtentOk)
       IN ApplyEffects([e EXCEPT !.attached =
                           IF clLayer # 0 THEN e.attached \cup {clLayer} ELSE e.attached])
    /\ UNCHANGED <<notCL, storeVars, clMapView, clExtentOk, clPhase, clBlobUrls, clRevoked>>

\* mapView.watch('extent', ...) fires; the watcher is installed while
\* mapView && isCustomRenderer && showCompositeLayer
CLExtentChange ==
    /\ clPhase = "mounted"
    /\ clNextId <= MaxJobs
    /\ clMapView
    /\ \E ok \in BOOLEAN :
        /\ clExtentOk' = ok
        /\ IF isCustomRenderer(rasterFunctionName) /\ showCompositeLayer
           THEN LET r == createCustomRendererLayer(clAbortRef, clJobs, clNextId, clMapView,
                              compositeSceneIds, rasterFunctionName, compositeMethod,
                              clGroupLayer, ok, clAttached)
                IN /\ clAbortRef' = r.ab
                   /\ clJobs' = r.jobs
                   /\ clNextId' = r.nid
           ELSE /\ ok # clExtentOk
                /\ UNCHANGED <<clAbortRef, clJobs, clNextId>>
    /\ UNCHANGED <<notCL, storeVars, clMapView, clGroupLayer, clPhase, clLayerRef, clLayer,
                   clFxAdd, clBlobUrls, clAttached, clRevoked>>

\* await exportCompositeImageWithCustomRenderer resolves with a blob, also
\* for a request whose signal the transport did not honor: the blob URL is
\* created and pushed, the image starts to load
CLFetchResolve(j) ==
    /\ clJobs[j].stage = "fetch"
    /\ clJobs' = [clJobs EXCEPT ![j].stage = "decode"]
    /\ clBlobUrls' = clBlobUrls \cup {j}
    /\ UNCHANGED <<notCL, storeVars, viewVars, clPhase, clLayerRef, clLayer, clFxAdd,
                   clAbortRef, clNextId, clAttached, clRevoked>>

\* the fetch rejects: a transport error, or AbortError once the signal is set
CLFetchReject(j) ==
    /\ clJobs[j].stage = "fetch"
    /\ clJobs' = [clJobs EXCEPT ![j].stage = "rejected"]
    /\ UNCHANGED <<notCL, storeVars, viewVars, clPhase, clLayerRef, clLayer, clFxAdd,
                   clAbortRef, clBlobUrls, clNextId, clAttached, clRevoked>>

\* img.onerror: the payload is no image (an error body, a bad status)
CLDecodeFail(j) ==
    /\ clJobs[j].stage = "decode"
    /\ clJobs' = [clJobs EXCEPT ![j].stage = "undecodable"]
    /\ UNCHANGED <<notCL, storeVars, viewVars, clPhase, clLayerRef, clLayer, clFxAdd,
                   clAbortRef, clBlobUrls, clNextId, clAttached, clRevoked>>

\* img.onload: the old layer is removed, the MediaLayer is created and
\* handed to setLayer; an unmounted component ignores setLayer
CommitLayer(j) ==
    /\ clAttached' = RemoveOld(clAttached, clLayerRef, clJobs[j].gl)
    /\ clLayerRef' = j
    /\ clLayer' = IF clPhase = "mounted" THEN j ELSE clLayer
    /\ clFxAdd' = (clFxAdd \/ clPhase = "mounted")

CLDecodeOk(j) ==
    /\ clJobs[j].stage = "decode"
    /\ clJobs' = [clJobs EXCEPT ![j].stage = "done"]
    /\ CommitLayer(j)
    /\ UNCHANGED <<notCL, storeVars, viewVars, clPhase, clAbortRef, clBlobUrls, clNextId, clRevoked>>

\* the effect on [groupLayer, layer]: groupLayer.add(layer)
CLAddLayerEffect ==
    /\ clPhase = "mounted"
    /\ clFxAdd
    /\ clFxAdd' = FALSE
    /\ clAttached' = IF clGroupLayer /\ clLayer # 0 THEN clAttached \cup {clLayer}
                     ELSE clAttached
    /\ UNCHANGED <<notCL, storeVars, viewVars, clPhase, clLayerRef, clLayer, clAbortRef,
                   clBlobUrls, clJobs, clNextId, clRevoked>>

\* the cleanup on unmount: abort the current request, revoke every blob URL
CLUnmount ==
    /\ clPhase = "mounted"
    /\ clPhase' = "unmounted"
    /\ clJobs' = IF clAbortRef # 0 THEN [clJobs EXCEPT ![clAbortRef].aborted = TRUE]
                 ELSE clJobs
    /\ clRevoked' = [u \in Ids |-> IF u \in clBlobUrls THEN clRevoked[u] + 1 ELSE clRevoked[u]]
    /\ clBlobUrls' = {}
    /\ clFxAdd' = FALSE
    /\ UNCHANGED <<notCL, storeVars, viewVars, clLayerRef, clLayer, clAbortRef, clNextId, clAttached>>

CLNext ==
    \/ CLMount
    \/ CLSelectScene
    \/ CLSelectMethod
    \/ CLSelectRenderer
    \/ CLToggleShow
    \/ CLMapViewArrives
    \/ CLGroupLayerArrives
    \/ CLExtentChange
    \/ \E j \in Ids : CLFetchResolve(j)
    \/ \E j \in Ids : CLFetchReject(j)
    \/ \E j \in Ids : CLDecodeFail(j)
    \/ \E j \in Ids : CLDecodeOk(j)
    \/ CLAddLayerEffect
    \/ CLUnmount

(***************************************************************************)
(* CustomRendererImageOverlay.tsx.  The call of fetchImage with id j        *)
(* creates the AbortController j and, when its response arrives, the blob  *)
(* URL j and the MediaLayer j.  fetch and response.blob() reject once the  *)
(* signal is set, so a call whose controller was aborted never gets to its *)
(* response.                                                                *)
(***************************************************************************)
MaxFetches == 3

OvIds == 1..MaxFetches

\* shown is the visible property of the MediaLayer the call created
NoFetch == [stage |-> "none", aborted |-> FALSE, image |-> "none", shown |-> FALSE]

\* what the service sends back with status 200: an image, or a body that
\* is no image (a JSON error document)
Payloads == {"image", "not an image"}

\* fetchImage up to its first await, with the mapView mv of its closure
fetchImage(ab, jobs, nid, loading, mv, ok) ==
    IF ~mv
    THEN [ab |-> ab, jobs |-> jobs, nid |-> nid, loading |-> loading]
    ELSE LET cancelled == IF ab # 0 THEN [jobs EXCEPT ![ab].aborted = TRUE] ELSE jobs
         IN [ab |-> nid,
             jobs |-> [cancelled EXCEPT ![nid].stage = IF ok THEN "fetch" ELSE "skipped"],
             nid |-> nid + 1,
             loading |-> IF ok THEN TRUE ELSE loading]

\* the effect on [mapView, visible, fetchImage]
FetchEffect(mv, visible, ok) ==
    IF mv /\ visible
    THEN fetchImage(ovAbortRef, ovJobs, ovNextId, ovLoading, mv, ok)
    ELSE [ab |-> ovAbortRef, jobs |-> ovJobs, nid |-> ovNextId, loading |-> ovLoading]

OvApply(r) ==
    /\ ovAbortRef' = r.ab
    /\ ovJobs' = r.jobs
    /\ ovNextId' = r.nid
    /\ ovLoading' = r.loading

OVStart ==
    /\ ovPhase = "new"
    /\ ovMapView \in BOOLEAN
    /\ ovCleanupView = FALSE
    /\ ovVisible \in BOOLEAN
    /\ ovExtentOk \in BOOLEAN
    /\ ovLayerRef = 0
    /\ ovAbortRef = 0
    /\ ovJobs = [j \in OvIds |-> NoFetch]
    /\ ovNextId = 1
    /\ ovAttached = {}
    /\ ovLoading = FALSE
    /\ ovBlobUrls = {}

OVIdle ==
    /\ ovPhase = "new"
    /\ ovMapView = FALSE
    /\ ovCleanupView = FALSE
    /\ ovVisible = FALSE
    /\ ovExtentOk = FALSE
    /\ ovLayerRef = 0
    /\ ovAbortRef = 0
    /\ ovJobs = [j \in OvIds |-> NoFetch]
    /\ ovNextId = 1
    /\ ovAttached = {}
    /\ ovLoading = FALSE
    /\ ovBlobUrls = {}

\* the first render: the effects run, the unmount cleanup closes over the
\* mapView of this render
OVMount ==
    /\ ovPhase = "new"
    /\ ovPhase' = "mounted"
    /\ ovCleanupView' = ovMapView
    /\ OvApply(FetchEffect(ovMapView, ovVisible, ovExtentOk))
    /\ UNCHANGED <<notOV, ovMapView, ovVisible, ovExtentOk, ovLayerRef, ovAttached, ovBlobUrls>>

\* the parent passes the map view
OVMapViewArrives ==
    /\ ovPhase = "mounted"
    /\ ovNextId <= MaxFetches
    /\ ~ovMapView
    /\ ovMapView' = TRUE
    /\ OvApply(FetchEffect(TRUE, ovVisible, ovExtentOk))
    /\ UNCHANGED <<notOV, ovPhase, ovCleanupView, ovVisible, ovExtentOk, ovLayerRef,
                   ovAttached, ovBlobUrls>>

\* the visible prop changes: fetchImage is a new callback, the fetch effect
\* runs, and the visibility effect sets layerRef.current.visible
OVToggleVisible ==
    /\ ovPhase = "mounted"
    /\ ovNextId <= MaxFetches
    /\ ovVisible' = ~ovVisible
    /\ LET r == FetchEffect(ovMapView, ~ovVisible, ovExtentOk)
       IN  OvApply([r EXCEPT !.jobs = IF ovLayerRef # 0
                                      THEN [r.jobs EXCEPT ![ovLayerRef].shown = ~ovVisible]
                                      ELSE r.jobs])
    /\ UNCHANGED <<notOV, ovPhase, ovMapView, ovCleanupView, ovExtentOk, ovLayerRef,
                   ovAttached, ovBlobUrls>>

\* rasterFunctionDefinition or mosaicRule changes: fetchImage is a new
\* callback, the effect runs
OVRuleChange ==
    /\ ovPhase = "mounted"
    /\ ovNextId <= MaxFetches
    /\ ovMapView /\ ovVisible
    /\ OvApply(FetchEffect(ovMapView, ovVisible, ovExtentOk))
    /\ UNCHANGED <<notOV, ovPhase, ovMapView, ovCleanupView, ovVisible, ovExtentOk,
                   ovLayerRef, ovAttached, ovBlobUrls>>

\* mapView.watch('extent', ...) fires; the watcher is installed while
\* mapView && visible
OVExtentChange ==
    /\ ovPhase = "mounted"
    /\ ovNextId <= MaxFetches
    /\ ovMapView /\ ovVisible
    /\ \E ok \in BOOLEAN :
        /\ ovExtentOk' = ok
        /\ OvApply(fetchImage(ovAbortRef, ovJobs, ovNextId, ovLoading, ovMapView, ok))
    /\ UNCHANGED <<notOV, ovPhase, ovMapView, ovCleanupView, ovVisible, ovLayerRef,
                   ovAttached, ovBlobUrls>>

\* the response arrives with status 200 and its blob is read: the blob URL
\* is created, the old layer removed, the new MediaLayer added to the map
OVFetchResolve(j) ==
    /\ ovJobs[j].stage = "fetch"
    /\ ~ovJobs[j].aborted
    /\ \E payload \in Payloads :
         ovJobs' = [ovJobs EXCEPT ![j].stage = "settling", ![j].image = payload,
                                  \* new MediaLayer({ ..., visible }): fetchImage is
                                  \* called by a render whose visible prop is true
                                  ![j].shown = TRUE]
    /\ ovBlobUrls' = ovBlobUrls \cup {j}
    /\ ovAttached' = (ovAttached \ {ovLayerRef}) \cup {j}
    /\ ovLayerRef' = j
    /\ UNCHANGED <<notOV, ovPhase, ovMapView, ovCleanupView, ovVisible, ovExtentOk,
                   ovAbortRef, ovNextId, ovLoading>>

\* fetch or response.blob() rejects (AbortError once the signal is set, a
\* transport error) or the status is not ok: the catch block
OVFetchReject(j) ==
    /\ ovJobs[j].stage = "fetch"
    /\ ovJobs' = [ovJobs EXCEPT ![j].stage = "rejected"]
    /\ ovLoading' = FALSE
    /\ UNCHANGED <<notOV, ovPhase, ovMapView, ovCleanupView, ovVisible, ovExtentOk,
                   ovLayerRef, ovAbortRef, ovNextId, ovAttached, ovBlobUrls>>

\* whenLayerView and the wait for mapView.updating settle
OVSettled(j) ==
    /\ ovJobs[j].stage = "settling"
    /\ ovJobs' = [ovJobs EXCEPT ![j].stage = "done"]
    /\ ovLoading' = FALSE
    /\ UNCHANGED <<notOV, ovPhase, ovMapView, ovCleanupView, ovVisible, ovExtentOk,
                   ovLayerRef, ovAbortRef, ovNextId, ovAttached, ovBlobUrls>>

\* the cleanup on unmount, with the mapView of the first render
OVUnmount ==
    /\ ovPhase = "mounted"
    /\ ovPhase' = "unmounted"
    /\ ovAttached' = IF ovLayerRef # 0 /\ ovCleanupView THEN ovAttached \ {ovLayerRef}
                     ELSE ovAttached
    /\ ovJobs' = IF ovAbortRef # 0 THEN [ovJobs EXCEPT ![ovAbortRef].aborted = TRUE]
                 ELSE ovJobs
    /\ UNCHANGED <<notOV, ovMapView, ovCleanupView, ovVisible, ovExtentOk, ovLayerRef,
                   ovAbortRef, ovNextId, ovLoading, ovBlobUrls>>

OVNext ==
    \/ OVMount
    \/ OVMapViewArrives
    \/ OVToggleVisible
    \/ OVRuleChange
    \/ OVExtentChange
    \/ \E j \in OvIds : OVFetchResolve(j)
    \/ \E j \in OvIds : OVFetchReject(j)
    \/ \E j \in OvIds : OVSettled(j)
    \/ OVUnmount

(***************************************************************************)
(* The Renderers store and the thumbnail capture of a custom renderer.     *)
(* A capture workflow is one run of handleLayerUpdate (the capture effect  *)
(* of CompositeLayer or of ImageryLayerByObjectID) or of                   *)
(* handleCaptureScreenshot.  Its record holds what the closure captured    *)
(* (the renderer id), the component that runs it, its position and what it *)
(* did so far.                                                             *)
(***************************************************************************)
MaxWorkflows == 2
MaxRequests == 2
MaxLayers == 2

RendererIds == {1, 2}
NoImage == <<>>
WorkflowIds == 1..MaxWorkflows

NoWorkflow ==
    [pc |-> "none", comp |-> "none", id |-> 0, req |-> 0,
     image |-> NoImage, stored |-> FALSE, cleared |-> FALSE, converged |-> FALSE]

\* the positions of a workflow that still runs
Awaiting == {"layerWhen", "viewWhen", "delay", "shot", "store"}

\* rasterFunctionDefinition is set: the custom overlay shows the scene
useCustomOverlay(sel) == sel # 0

\* reducer pendingScreenshotRendererIdSet
pendingScreenshotRendererIdSet(state, payload) == payload

\* updateRendererImage: setDoc(doc(..., rendererId), { image }, { merge: true })
updateRendererImage(docs, rendererId, image) ==
    [r \in DOMAIN docs \cup {rendererId} |-> IF r = rendererId THEN image ELSE docs[r]]

\* a reducer that sets the image of every renderer of the list
customRendererImageUpdatedAll(state, rendererId, image) ==
    [r \in DOMAIN state |-> image]

\* reducer customRendererImageUpdated
customRendererImageUpdated(state, rendererId, image) ==
    IF rendererId \in DOMAIN state THEN [state EXCEPT ![rendererId] = image] ELSE state

\* the guard of the capture effect of CompositeLayer
CompositeCaptures(pend, layer, mv, user) ==
    ~(pend = 0 \/ layer = 0 \/ ~mv \/ user = 0)

\* the guards of the capture effect of ImageryLayerByObjectID
SceneCaptures(pend, layer, mv, user, sel) ==
    /\ ~useCustomOverlay(sel)
    /\ ~(pend = 0 \/ ~mv \/ user = 0 \/ layer = 0)

\* handleLayerUpdate() is called: a workflow starts with the effect's closure
StartWorkflow(W, n, comp, pend, req) ==
    [W EXCEPT ![n] = [NoWorkflow EXCEPT !.pc = "layerWhen", !.comp = comp,
                                         !.id = pend, !.req = req]]

(***************************************************************************)
(* The capture effects that a render runs: runCL and runIL tell whether a  *)
(* dependency of the effect of CompositeLayer, of ImageryLayerByObjectID,  *)
(* changed; the other arguments are the values of that render.             *)
(***************************************************************************)
captureEffects(W, n, runCL, runIL, pend, req, cl, il, mv, user, sel) ==
    LET startCL == runCL /\ CompositeCaptures(pend, cl, mv, user)
        startIL == runIL /\ SceneCaptures(pend, il, mv, user, sel)
        W1 == IF startCL THEN StartWorkflow(W, n, "composite", pend, req) ELSE W
        n1 == IF startCL THEN n + 1 ELSE n
        W2 == IF startIL THEN StartWorkflow(W1, n1, "scene", pend, req) ELSE W1
        n2 == IF startIL THEN n1 + 1 ELSE n1
    IN [W |-> W2, n |-> n2]

CapStart ==
    /\ pendingScreenshotRendererId = 0
    /\ customRenderers = [r \in RendererIds |-> NoImage]
    /\ rendererDocs = [r \in RendererIds |-> NoImage]
    /\ firebaseUser \in {0, 1}
    /\ capRasterFunction = 0
    /\ capMapView = FALSE
    /\ capLayer = 0
    /\ ilLayer = 0
    /\ capOverlay = FALSE
    /\ capReq = 0
    /\ capW = [w \in WorkflowIds |-> NoWorkflow]
    /\ capNextW = 1

CapIdle ==
    /\ pendingScreenshotRendererId = 0
    /\ customRenderers = [r \in RendererIds |-> NoImage]
    /\ rendererDocs = [r \in RendererIds |-> NoImage]
    /\ firebaseUser = 0
    /\ capRasterFunction = 0
    /\ capMapView = FALSE
    /\ capLayer = 0
    /\ ilLayer = 0
    /\ capOverlay = FALSE
    /\ capReq = 0
    /\ capW = [w \in WorkflowIds |-> NoWorkflow]
    /\ capNextW = 1

\* a render after a change: the effects run and the workflows they start
RunEffects(runCL, runIL) ==
    LET r == captureEffects(capW, capNextW, runCL, runIL, pendingScreenshotRendererId',
                            capReq', capLayer', ilLayer', capMapView', firebaseUser',
                            capRasterFunction')
    IN /\ r.n <= MaxWorkflows + 1
       /\ capW' = r.W
       /\ capNextW' = r.n

\* useImageryLayerByObjectId: the mount effect creates the layer and sets the state
CapSceneLayerInit ==
    /\ ilLayer = 0
    /\ ilLayer' = 1
    /\ UNCHANGED <<pendingScreenshotRendererId, customRenderers, rendererDocs,
                   firebaseUser,
                   capRasterFunction, capMapView, capLayer, capOverlay, capReq>>
    /\ RunEffects(FALSE, TRUE)
    /\ UNCHANGED notCap

\* RasterFunctionSelector onChange: the user picks renderer r (0: a built-in one)
CapSelectRenderer(r) ==
    /\ r # capRasterFunction
    /\ pendingScreenshotRendererId' =
          IF r # 0 /\ customRenderers[r] = NoImage
          THEN pendingScreenshotRendererIdSet(pendingScreenshotRendererId, r)
          ELSE pendingScreenshotRendererId
    /\ capReq' = IF pendingScreenshotRendererId' # pendingScreenshotRendererId
                 THEN capReq + 1 ELSE capReq
    /\ capReq' <= MaxRequests
    /\ capRasterFunction' = r
    \* without a definition ImageryLayerByObjectID renders no overlay: it unmounts
    /\ capOverlay' = (capOverlay /\ useCustomOverlay(r))
    /\ UNCHANGED <<customRenderers, rendererDocs,
                   firebaseUser, capMapView, capLayer, ilLayer>>
    /\ RunEffects(pendingScreenshotRendererId' # pendingScreenshotRendererId,
                  \/ pendingScreenshotRendererId' # pendingScreenshotRendererId
                  \/ useCustomOverlay(r) # useCustomOverlay(capRasterFunction))
    /\ UNCHANGED notCap

\* CustomRendererImageOverlay fetchImage: the media layer is added to the map
CapOverlayRendered ==
    /\ useCustomOverlay(capRasterFunction)
    /\ capMapView
    /\ ~capOverlay
    /\ capOverlay' = TRUE
    /\ UNCHANGED <<pendingScreenshotRendererId, customRenderers, rendererDocs,
                   firebaseUser,
                   capRasterFunction, capMapView, capLayer, ilLayer, capReq, capW, capNextW>>
    /\ UNCHANGED notCap

\* CompositeLayer setLayer: a new layer, or null when the composite is hidden
CapCompositeLayerSet ==
    /\ \E l \in (0..MaxLayers) \ {capLayer} : capLayer' = l
    /\ UNCHANGED <<pendingScreenshotRendererId, customRenderers, rendererDocs,
                   firebaseUser,
                   capRasterFunction, capMapView, ilLayer, capOverlay, capReq>>
    /\ RunEffects(TRUE, FALSE)
    /\ UNCHANGED notCap

\* the user signs in or out: selectFirebaseUser changes
CapUserChange ==
    /\ firebaseUser' = 1 - firebaseUser
    /\ UNCHANGED <<pendingScreenshotRendererId, customRenderers, rendererDocs,
                   capRasterFunction,
                   capMapView, capLayer, ilLayer, capOverlay, capReq>>
    /\ RunEffects(TRUE, TRUE)
    /\ UNCHANGED notCap

\* the map view is created: the mapView prop becomes defined
CapMapViewArrives ==
    /\ ~capMapView
    /\ capMapView' = TRUE
    /\ UNCHANGED <<pendingScreenshotRendererId, customRenderers, rendererDocs,
                   firebaseUser,
                   capRasterFunction, capLayer, ilLayer, capOverlay, capReq>>
    /\ RunEffects(TRUE, TRUE)
    /\ UNCHANGED notCap

\* what a step of a workflow that dispatches nothing leaves alone
capStore == <<pendingScreenshotRendererId, customRenderers, rendererDocs, firebaseUser,
              capRasterFunction,
              capMapView, capLayer, ilLayer, capOverlay, capReq, capNextW>>

\* await layer.when() resolves
CapLayerLoaded(w) ==
    /\ capW[w].pc = "layerWhen"
    /\ capW' = [capW EXCEPT ![w].pc = "viewWhen"]
    /\ UNCHANGED <<capStore, notCap>>

\* await mapView.when() resolves: the view is ready, whether or not it is
\* updating at that moment; converged records that mapView.updating was false
CapViewReady(w) ==
    /\ capW[w].pc = "viewWhen"
    /\ \E updating \in BOOLEAN :
         capW' = [capW EXCEPT ![w].pc = "delay", ![w].converged = ~updating]
    /\ UNCHANGED <<capStore, notCap>>

\* the one second timer fires
CapDelayElapsed(w) ==
    /\ capW[w].pc = "delay"
    /\ capW' = [capW EXCEPT ![w].pc = "shot"]
    /\ UNCHANGED <<capStore, notCap>>

\* captureMapScreenshot resolves: the image shows what the map displays now
CapScreenshot(w) ==
    /\ capW[w].pc = "shot"
    /\ capW' = [capW EXCEPT ![w].pc = "store", ![w].image = <<capRasterFunction>>]
    /\ UNCHANGED <<capStore, notCap>>

\* updateRendererImage resolves: the image is persisted, the registry is
\* updated and the pending id is cleared.  The render that follows runs the
\* capture effects with a null pending id, which start nothing.
CapStored(w) ==
    /\ capW[w].pc = "store"
    /\ capW' = [capW EXCEPT ![w].pc = "done", ![w].stored = TRUE, ![w].cleared = TRUE]
    /\ rendererDocs' = updateRendererImage(rendererDocs, capW[w].id, capW[w].image)
    /\ customRenderers' = customRendererImageUpdated(customRenderers, capW[w].id, capW[w].image)
    /\ pendingScreenshotRendererId' = pendingScreenshotRendererIdSet(pendingScreenshotRendererId, 0)
    /\ UNCHANGED <<firebaseUser, capRasterFunction, capMapView, capLayer, ilLayer,
                   capOverlay, capReq, capNextW>>
    /\ UNCHANGED notCap

\* an await of handleLayerUpdate rejects: the catch block clears the pending id
CapWorkflowFails(w) ==
    /\ capW[w].comp \in {"composite", "scene"}
    /\ capW[w].pc \in {"layerWhen", "viewWhen", "shot", "store"}
    /\ capW' = [capW EXCEPT ![w].pc = "failed", ![w].cleared = TRUE]
    /\ pendingScreenshotRendererId' = pendingScreenshotRendererIdSet(pendingScreenshotRendererId, 0)
    /\ UNCHANGED <<customRenderers, rendererDocs,
                   firebaseUser, capRasterFunction, capMapView, capLayer,
                   ilLayer, capOverlay, capReq, capNextW>>
    /\ UNCHANGED notCap

\* handleCaptureScreenshot up to its first await
handleCaptureScreenshot(W, n, pend, req, mv, user) ==
    IF ~mv \/ pend = 0 \/ user = 0
    THEN [W |-> W, n |-> n]
    ELSE [W |-> [W EXCEPT ![n] = [NoWorkflow EXCEPT !.pc = "shot", !.comp = "callback",
                                                     !.id = pend, !.req = req]],
          n |-> n + 1]

\* the overlay calls onCaptureScreenshot once its image is on the map
CapInvokeCallback ==
    /\ capOverlay
    /\ pendingScreenshotRendererId # 0
    /\ capNextW <= MaxWorkflows
    /\ LET r == handleCaptureScreenshot(capW, capNextW, pendingScreenshotRendererId, capReq,
                                        capMapView, firebaseUser)
       IN /\ r.n # capNextW
          /\ capW' = r.W
          /\ capNextW' = r.n
    /\ UNCHANGED <<pendingScreenshotRendererId, customRenderers, rendererDocs,
                   firebaseUser,
                   capRasterFunction, capMapView, capLayer, ilLayer, capOverlay, capReq>>
    /\ UNCHANGED notCap

\* an await of handleCaptureScreenshot rejects: nothing catches it
CapCallbackFails(w) ==
    /\ capW[w].comp = "callback"
    /\ capW[w].pc \in {"shot", "store"}
    /\ capW' = [capW EXCEPT ![w].pc = "failed"]
    /\ UNCHANGED <<capStore, notCap>>

CapNext ==
    \/ CapSceneLayerInit
    \/ \E r \in {0} \cup RendererIds : CapSelectRenderer(r)
    \/ CapOverlayRendered
    \/ CapCompositeLayerSet
    \/ CapUserChange
    \/ CapMapViewArrives
    \/ \E w \in WorkflowIds : CapLayerLoaded(w)
    \/ \E w \in WorkflowIds : CapViewReady(w)
    \/ \E w \in WorkflowIds : CapDelayElapsed(w)
    \/ \E w \in WorkflowIds : CapScreenshot(w)
    \/ \E w \in WorkflowIds : CapStored(w)
    \/ \E w \in WorkflowIds : CapWorkflowFails(w)

\* the capture effects together with the overlay's call of the callback
CapCbNext ==
    \/ CapSceneLayerInit
    \/ \E r \in {0} \cup RendererIds : CapSelectRenderer(r)
    \/ CapOverlayRendered
    \/ CapCompositeLayerSet
    \/ CapUserChange
    \/ CapMapViewArrives
    \/ CapInvokeCallback
    \/ \E w \in WorkflowIds : CapLayerLoaded(w)
    \/ \E w \in WorkflowIds : CapViewReady(w)
    \/ \E w \in WorkflowIds : CapDelayElapsed(w)
    \/ \E w \in WorkflowIds : CapScreenshot(w)
    \/ \E w \in WorkflowIds : CapStored(w)
    \/ \E w \in WorkflowIds : CapWorkflowFails(w)
    \/ \E w \in WorkflowIds : CapCallbackFails(w)

\* every await of a running workflow settles
CapSettles ==
    \E w \in WorkflowIds :
        \/ CapLayerLoaded(w)
        \/ CapViewReady(w)
        \/ CapDelayElapsed(w)
        \/ CapScreenshot(w)
        \/ CapStored(w)
        \/ CapWorkflowFails(w)

(***************************************************************************)
(* The mosaic rules.  compositeMosaicRule is a useMemo of CompositeLayer   *)
(* on [compositeSceneIds, compositeMethod]; the lock rule is computed from *)
(* the object id of the selected scene.  Each change of an input computes  *)
(* the rule of the render that follows.                                    *)
(***************************************************************************)
MaxSelection == 3

MRSceneIds == {101, 102, 103}
CompositeMethods == {"first", "last", "min", "max", "mean", "blend", "sum"}
ObjectIds == {0, 1, 101, 2969545}

MRStart ==
    /\ mrSelection = <<>>
    /\ mrMethod = "min"
    /\ mrCompositeRule = compositeMosaicRule(mrSelection, mrMethod)
    /\ mrObjectId = 1
    /\ mrLockRule = getLockRasterMosaicRule(mrObjectId)
    /\ mrClick = "none"

MRIdle ==
    /\ mrSelection = <<>>
    /\ mrMethod = "min"
    /\ mrCompositeRule = NoRule
    /\ mrObjectId = 1
    /\ mrLockRule = getLockRasterMosaicRule(1)
    /\ mrClick = "none"

\* the scenes of the calendar (formattedScenes), in the order it shows them
FormattedSceneLists == {<<101, 102, 103>>, <<103, 102>>, <<102>>}

\* handleSceneSelection with a range merged by concatenation alone
handleSceneSelectionConcat(ids, formattedScenes, objectId, isShiftKey, isMetaOrCtrlKey) ==
    LET findIndex(x) ==
            IF \E i \in 1..Len(formattedScenes) : formattedScenes[i] = x
            THEN CHOOSE i \in 1..Len(formattedScenes) :
                     /\ formattedScenes[i] = x
                     /\ \A j \in 1..(i - 1) : formattedScenes[j] # x
            ELSE 0
        lastIndex == findIndex(ids[Len(ids)])
        currentIndex == findIndex(objectId)
        startIndex == IF lastIndex < currentIndex THEN lastIndex ELSE currentIndex
        endIndex == IF lastIndex < currentIndex THEN currentIndex ELSE lastIndex
    IN  IF ~isShiftKey \/ isMetaOrCtrlKey
        THEN IF \E i \in 1..Len(ids) : ids[i] = objectId
             THEN SelectSeq(ids, LAMBDA id : id # objectId)
             ELSE Append(ids, objectId)
        ELSE IF Len(ids) > 0 /\ lastIndex # 0 /\ currentIndex # 0
             THEN ids \o SubSeq(formattedScenes, startIndex, endIndex)
             ELSE ids

\* handleSceneSelection: the list it dispatches with compositeSceneIdsChanged,
\* or the selection itself where it dispatches nothing
handleSceneSelection(ids, formattedScenes, objectId, isShiftKey, isMetaOrCtrlKey) ==
    LET includes(x) == \E i \in 1..Len(ids) : ids[i] = x
        toggled == IF includes(objectId)
                   THEN SelectSeq(ids, LAMBDA id : id # objectId)
                   ELSE Append(ids, objectId)
        findIndex(x) ==
            IF \E i \in 1..Len(formattedScenes) : formattedScenes[i] = x
            THEN CHOOSE i \in 1..Len(formattedScenes) :
                     /\ formattedScenes[i] = x
                     /\ \A j \in 1..(i - 1) : formattedScenes[j] # x
            ELSE 0
        lastSelectedId == ids[Len(ids)]
        lastIndex == findIndex(lastSelectedId)
        currentIndex == findIndex(objectId)
        startIndex == IF lastIndex < currentIndex THEN lastIndex ELSE currentIndex
        endIndex == IF lastIndex < currentIndex THEN currentIndex ELSE lastIndex
        rangeSceneIds == SubSeq(formattedScenes, startIndex, endIndex)
        all == ids \o rangeSceneIds
        \* [...new Set(all)]: every value once, in the order of first insertion
        newSelection ==
            SelectSeq([i \in 1..Len(all) |->
                          IF \E j \in 1..(i - 1) : all[j] = all[i] THEN 0 ELSE all[i]],
                      LAMBDA id : id # 0)
    IN  IF ~isShiftKey /\ ~isMetaOrCtrlKey THEN toggled
        ELSE IF isMetaOrCtrlKey THEN toggled
        ELSE IF isShiftKey /\ Len(ids) > 0
             THEN IF lastIndex # 0 /\ currentIndex # 0 THEN newSelection ELSE ids
             ELSE ids

\* a click on a scene of the calendar, with the modifier keys held
MRSelectScene ==
    \E formattedScenes \in FormattedSceneLists, isShiftKey \in BOOLEAN,
       isMetaOrCtrlKey \in BOOLEAN :
      \E n \in 1..Len(formattedScenes) :
        /\ mrSelection' = handleSceneSelection(mrSelection, formattedScenes,
                                               formattedScenes[n], isShiftKey,
                                               isMetaOrCtrlKey)
        /\ Len(mrSelection') <= MaxSelection
        /\ mrClick' = IF isMetaOrCtrlKey THEN "meta"
                      ELSE IF isShiftKey THEN "shift" ELSE "plain"
        /\ mrCompositeRule' = compositeMosaicRule(mrSelection', mrMethod)
        /\ UNCHANGED <<mrMethod, mrObjectId, mrLockRule, notMR>>

\* compositeMethodChanged
MRSelectMethod ==
    \E m \in CompositeMethods \ {mrMethod} :
        /\ mrMethod' = m
        /\ mrCompositeRule' = compositeMosaicRule(mrSelection, m)
        /\ UNCHANGED <<mrSelection, mrObjectId, mrLockRule, mrClick, notMR>>

\* getLockRasterMosaicRule is called with the object id of a scene
MRPickScene ==
    \E id \in ObjectIds \ {mrObjectId} :
        /\ mrObjectId' = id
        /\ mrLockRule' = getLockRasterMosaicRule(id)
        /\ UNCHANGED <<mrSelection, mrMethod, mrCompositeRule, mrClick, notMR>>

MRNext == MRSelectScene \/ MRSelectMethod \/ MRPickScene

(***************************************************************************)
(* The Renderers store with the handlers that dispatch to it:              *)
(* useFetchCustomRenderers (the effect on user?.uid), the selector's       *)
(* onChange, handleDeleteRenderer and the capture workflows.  The list     *)
(* customRenderers is a function from the ids it holds to their images;    *)
(* rendererDocs are the documents of the signed-in account in Firestore.   *)
(***************************************************************************)
MaxLoads == 3

LoadIds == 1..MaxLoads

\* reducer customRenderersLoaded (the list; loading is set by the action)
customRenderersLoaded(state, payload) == payload

\* reducer customRenderersCleared
customRenderersCleared(state) == [r \in {} |-> NoImage]

\* reducer customRendererDeleted
customRendererDeleted(state, id) == [r \in DOMAIN state \ {id} |-> state[r]]

RenStart ==
    /\ pendingScreenshotRendererId = 0
    /\ customRenderers = [r \in {} |-> NoImage]
    /\ renLoading = FALSE
    /\ rendererDocs = [r \in RendererIds |-> NoImage]
    /\ firebaseUser = 0
    /\ capRasterFunction = 0
    /\ capMapView = FALSE
    /\ capLayer = 0
    /\ ilLayer = 0
    /\ capOverlay = FALSE
    /\ capReq = 0
    /\ capW = [w \in WorkflowIds |-> NoWorkflow]
    /\ capNextW = 1
    /\ renLoads = [f \in LoadIds |-> "none"]
    /\ renNextLoad = 1
    /\ renDeletes = {}
    /\ renCaptures = {}

RenIdle ==
    /\ renLoading = FALSE
    /\ renLoads = [f \in LoadIds |-> "none"]
    /\ renNextLoad = 1
    /\ renDeletes = {}
    /\ renCaptures = {}

\* the user signs in or out: the effect of useFetchCustomRenderers runs
\* loadRenderers, which clears the list without a user and otherwise
\* dispatches customRenderersLoadingStarted and awaits fetchUserRenderers
RenUserChange ==
    /\ firebaseUser' = 1 - firebaseUser
    /\ IF firebaseUser' = 0
       THEN /\ customRenderers' = customRenderersCleared(customRenderers)
            /\ renLoading' = FALSE
            /\ UNCHANGED <<renLoads, renNextLoad>>
       ELSE /\ renNextLoad <= MaxLoads
            /\ renLoading' = TRUE
            /\ renLoads' = [renLoads EXCEPT ![renNextLoad] = "fetch"]
            /\ renNextLoad' = renNextLoad + 1
            /\ UNCHANGED customRenderers
    /\ UNCHANGED <<pendingScreenshotRendererId, rendererDocs, capRasterFunction,
                   renDeletes, renCaptures, notRen>>

\* fetchUserRenderers of call f settles: customRenderersLoaded with the
\* documents it read, or customRenderersCleared in the catch block
RenFetchSettles(f) ==
    /\ renLoads[f] = "fetch"
    /\ \E ok \in BOOLEAN :
         /\ renLoads' = [renLoads EXCEPT ![f] = IF ok THEN "loaded" ELSE "failed"]
         /\ customRenderers' = IF ok THEN customRenderersLoaded(customRenderers, rendererDocs)
                                     ELSE customRenderersCleared(customRenderers)
    /\ renLoading' = FALSE
    /\ UNCHANGED <<pendingScreenshotRendererId, rendererDocs, firebaseUser,
                   capRasterFunction, renNextLoad, renDeletes, renCaptures, notRen>>

\* RasterFunctionSelector onChange: the user picks a renderer of the list
\* (0: a built-in one); a custom renderer without an image becomes pending
RenSelectRenderer(r) ==
    /\ r # capRasterFunction
    /\ r = 0 \/ r \in DOMAIN customRenderers
    /\ pendingScreenshotRendererId' =
          IF r # 0 /\ customRenderers[r] = NoImage
          THEN pendingScreenshotRendererIdSet(pendingScreenshotRendererId, r)
          ELSE pendingScreenshotRendererId
    /\ capRasterFunction' = r
    /\ UNCHANGED <<customRenderers, renLoading, rendererDocs, firebaseUser,
                   renLoads, renNextLoad, renDeletes, renCaptures, notRen>>

\* handleDeleteRenderer up to its await of deleteRenderer
RenDelete ==
    /\ ~(firebaseUser = 0 \/ capRasterFunction = 0)
    /\ capRasterFunction \in DOMAIN customRenderers
    /\ capRasterFunction \notin renDeletes
    /\ renDeletes' = renDeletes \cup {capRasterFunction}
    /\ UNCHANGED <<pendingScreenshotRendererId, customRenderers, renLoading,
                   rendererDocs, firebaseUser, capRasterFunction,
                   renLoads, renNextLoad, renCaptures, notRen>>

\* deleteRenderer settles: the document is gone and customRendererDeleted
\* is dispatched, or the catch block alerts
RenDeleteSettles(id) ==
    /\ id \in renDeletes
    /\ renDeletes' = renDeletes \ {id}
    /\ \E ok \in BOOLEAN :
         /\ rendererDocs' = IF ok THEN [r \in DOMAIN rendererDocs \ {id} |-> rendererDocs[r]]
                                  ELSE rendererDocs
         /\ customRenderers' = IF ok THEN customRendererDeleted(customRenderers, id)
                                     ELSE customRenderers
    /\ UNCHANGED <<pendingScreenshotRendererId, renLoading, firebaseUser,
                   capRasterFunction, renLoads, renNextLoad, renCaptures, notRen>>

\* a capture effect finds a pending id, a layer, the view and a user:
\* handleLayerUpdate starts for the pending id
RenCaptureStarts ==
    /\ pendingScreenshotRendererId # 0
    /\ firebaseUser # 0
    /\ pendingScreenshotRendererId \notin renCaptures
    /\ renCaptures' = renCaptures \cup {pendingScreenshotRendererId}
    /\ UNCHANGED <<pendingScreenshotRendererId, customRenderers, renLoading,
                   rendererDocs, firebaseUser, capRasterFunction,
                   renLoads, renNextLoad, renDeletes, notRen>>

\* handleLayerUpdate for id ends: the snapshot is stored and the pending id
\* cleared, or the catch block clears the pending id
RenCaptureSettles(id) ==
    /\ id \in renCaptures
    /\ renCaptures' = renCaptures \ {id}
    /\ \E ok \in BOOLEAN :
         /\ rendererDocs' = IF ok THEN updateRendererImage(rendererDocs, id, <<capRasterFunction>>)
                                  ELSE rendererDocs
         /\ customRenderers' =
               IF ok THEN customRendererImageUpdated(customRenderers, id, <<capRasterFunction>>)
                     ELSE customRenderers
    /\ pendingScreenshotRendererId' = pendingScreenshotRendererIdSet(pendingScreenshotRendererId, 0)
    /\ UNCHANGED <<renLoading, firebaseUser, capRasterFunction,
                   renLoads, renNextLoad, renDeletes, notRen>>

RenNext ==
    \/ RenUserChange
    \/ \E f \in LoadIds : RenFetchSettles(f)
    \/ \E r \in {0} \cup RendererIds : RenSelectRenderer(r)
    \/ RenDelete
    \/ \E id \in RendererIds : RenDeleteSettles(id)
    \/ RenCaptureStarts
    \/ \E id \in RendererIds : RenCaptureSettles(id)

(***************************************************************************)
(* The Bookmarks store: one action per reducer of the slice, with the      *)
(* payloads drawn from the projects and bookmarks of the account.          *)
(* bmLast is the type of the action dispatched last.                       *)
(***************************************************************************)
ProjectIds == {1, 2}
BookmarkIds == {1, 2}

\* reducer projectSelected (0: null)
projectSelected(state, payload) ==
    LET assigned == [state EXCEPT !.selectedProjectId = payload]
    IN  IF payload # assigned.selectedProjectId
        THEN [assigned EXCEPT !.bookmarks = {}, !.selectedBookmarkId = 0]
        ELSE assigned

BmStart ==
    /\ projects = {}
    /\ selectedProjectId = 0
    /\ bookmarks = {}
    /\ selectedBookmarkId = 0
    /\ loadingProjects = FALSE
    /\ loadingBookmarks = FALSE
    /\ bmLast = "none"

BmIdle == BmStart

\* projectsLoaded, dispatched by loadProjects of ProjectsList once a load started
BmProjectsLoaded ==
    \E payload \in SUBSET ProjectIds :
        /\ loadingProjects
        /\ projects' = payload
        /\ loadingProjects' = FALSE
        /\ bmLast' = "projectsLoaded"
        /\ UNCHANGED <<selectedProjectId, bookmarks, selectedBookmarkId, loadingBookmarks,
                       notBm>>

\* projectsLoadingStarted
BmProjectsLoadingStarted ==
    /\ loadingProjects' = TRUE
    /\ bmLast' = "projectsLoadingStarted"
    /\ UNCHANGED <<projects, selectedProjectId, bookmarks, selectedBookmarkId,
                   loadingBookmarks, notBm>>

\* projectSelected, dispatched by the button of a project of the list
BmProjectSelected ==
    \E payload \in projects :
        LET s == projectSelected([selectedProjectId |-> selectedProjectId,
                                  bookmarks |-> bookmarks,
                                  selectedBookmarkId |-> selectedBookmarkId], payload)
        IN  /\ selectedProjectId' = s.selectedProjectId
            /\ bookmarks' = s.bookmarks
            /\ selectedBookmarkId' = s.selectedBookmarkId
            /\ bmLast' = "projectSelected"
            /\ UNCHANGED <<projects, loadingProjects, loadingBookmarks, notBm>>

\* bookmarksLoaded, dispatched by loadBookmarks of BookmarksList once a load started
BmBookmarksLoaded ==
    \E payload \in SUBSET BookmarkIds :
        /\ loadingBookmarks
        /\ bookmarks' = payload
        /\ loadingBookmarks' = FALSE
        /\ bmLast' = "bookmarksLoaded"
        /\ UNCHANGED <<projects, selectedProjectId, selectedBookmarkId, loadingProjects,
                       notBm>>

\* bookmarksLoadingStarted, dispatched by loadBookmarks for the selected project
BmBookmarksLoadingStarted ==
    /\ selectedProjectId # 0
    /\ loadingBookmarks' = TRUE
    /\ bmLast' = "bookmarksLoadingStarted"
    /\ UNCHANGED <<projects, selectedProjectId, bookmarks, selectedBookmarkId,
                   loadingProjects, notBm>>

\* bookmarkSelected, dispatched by handleBookmarkChange for a bookmark of the list
BmBookmarkSelected ==
    \E payload \in bookmarks :
        /\ selectedBookmarkId' = payload
        /\ bmLast' = "bookmarkSelected"
        /\ UNCHANGED <<projects, selectedProjectId, bookmarks, loadingProjects,
                       loadingBookmarks, notBm>>

\* bookmarksCleared
BmBookmarksCleared ==
    /\ projects' = {}
    /\ selectedProjectId' = 0
    /\ bookmarks' = {}
    /\ selectedBookmarkId' = 0
    /\ bmLast' = "bookmarksCleared"
    /\ UNCHANGED <<loadingProjects, loadingBookmarks, notBm>>

BmNext ==
    \/ BmProjectsLoaded
    \/ BmProjectsLoadingStarted
    \/ BmProjectSelected
    \/ BmBookmarksLoaded
    \/ BmBookmarksLoadingStarted
    \/ BmBookmarkSelected
    \/ BmBookmarksCleared

SerInit == SerStart /\ CLIdle /\ CapIdle /\ MRIdle /\ OVIdle /\ RenIdle /\ BmIdle
SpecSer == SerInit /\ [][SerNext]_vars

CLInit == SerIdle /\ CLStart /\ CapIdle /\ MRIdle /\ OVIdle /\ RenIdle /\ BmIdle
SpecCL == CLInit /\ [][CLNext]_vars

MRInit == SerIdle /\ CLIdle /\ CapIdle /\ MRStart /\ OVIdle /\ RenIdle /\ BmIdle
SpecMR == MRInit /\ [][MRNext]_vars

OVInit == SerIdle /\ CLIdle /\ CapIdle /\ MRIdle /\ OVStart /\ RenIdle /\ BmIdle
SpecOV == OVInit /\ [][OVNext]_vars

CapInit == SerIdle /\ CLIdle /\ CapStart /\ MRIdle /\ OVIdle /\ RenIdle /\ BmIdle
SpecCap == CapInit /\ [][CapNext]_vars
FairSpecCap == CapInit /\ [][CapNext]_vars /\ WF_vars(CapSettles)
SpecCapCb == CapInit /\ [][CapCbNext]_vars

RenInit == SerIdle /\ CLIdle /\ RenStart /\ MRIdle /\ OVIdle /\ BmIdle
SpecRen == RenInit /\ [][RenNext]_vars

BmInit == SerIdle /\ CLIdle /\ CapIdle /\ MRIdle /\ OVIdle /\ RenIdle /\ BmStart
SpecBm == BmInit /\ [][BmNext]_vars

(***************************************************************************)
(* Reading the output: the nesting depth after each token and the keys     *)
(* that belong to the object a brace opens.                                 *)
(***************************************************************************)
IsOpen(t) == t \in {P("{"), P("[")}
IsClose(t) == t \in {P("}"), P("]")}

DepthAfter(toks, i) ==
    Cardinality({m \in 1..i : IsOpen(toks[m])})
    - Cardinality({m \in 1..i : IsClose(toks[m])})

\* the positions of the keys of the object opened at position i
KeysOfObjectAt(toks, i) ==
    {k \in (i + 1)..Len(toks) :
        /\ toks[k][1] = "K"
        /\ DepthAfter(toks, k) = DepthAfter(toks, i)
        /\ \A m \in i..k : DepthAfter(toks, m) >= DepthAfter(toks, i)}

RECURSIVE ObjectsWithKey(_, _)
RECURSIVE ObjectsWithKeyIn(_, _)
ObjectsWithKeyIn(vs, k) ==
    IF Len(vs) = 0 THEN 0 ELSE ObjectsWithKey(vs[1], k) + ObjectsWithKeyIn(Tail(vs), k)
\* how many objects of the value v, at any depth, have the key k
ObjectsWithKey(v, k) ==
    CASE Tag(v) = "arr" -> ObjectsWithKeyIn(Payload(v), k)
      [] Tag(v) = "obj" ->
           (IF HasKey(Payload(v), k) THEN 1 ELSE 0)
           + ObjectsWithKeyIn([i \in 1..Len(Payload(v)) |-> Payload(v)[i][2]], k)
      [] OTHER -> 0

\* C1: in the serialized rule every object that has a rasterFunction key,
\* at every depth, under rasterFunctionArguments and inside arrays, writes
\* that key with its value first, and every such object of the rule is
\* written.
C1_RasterFunctionFirst ==
    out # <<>> =>
        /\ \A i \in 1..Len(out) :
              (out[i] = P("{") /\ \E k \in KeysOfObjectAt(out, i) : out[k] = <<"K", RF>>)
                 => /\ out[i + 1] = <<"K", RF>>
                    /\ out[i + 2] = P(":")
                    /\ out[i + 3][1] = "S"
        /\ Cardinality({k \in 1..Len(out) : out[k] = <<"K", RF>>})
              = ObjectsWithKey(rule, RF)

\* a serialized rule whose top object names rasterFunction last and holds,
\* under rasterFunctionArguments, an array with an object that names it last
C1_Witness ==
    /\ out # <<>>
    /\ Tag(rule) = "obj"
    /\ Len(Payload(rule)) = 2
    /\ Payload(rule)[1][1] = RFA
    /\ Payload(rule)[2][1] = RF
    /\ LET arg == Payload(rule)[1][2]
       IN /\ Tag(arg) = "arr"
          /\ Len(Payload(arg)) = 2
          /\ Tag(Payload(arg)[2]) = "obj"
          /\ Len(Payload(Payload(arg)[2])) = 3
          /\ Payload(Payload(arg)[2])[3][1] = RF

(***************************************************************************)
(* Claims on the CompositeLayer component.                                  *)
(***************************************************************************)
\* the jobs whose request was sent
Issued(j) == clJobs[j].stage \in {"fetch", "decode", "done", "rejected", "undecodable"}
\* the jobs whose blob URL was created
HasBlobUrl(j) == clJobs[j].stage \in {"decode", "done", "undecodable"}
\* job j takes a step
Steps(j) == clJobs'[j].stage # clJobs[j].stage
\* job j was cancelled by the start of a newer job
Superseded(j) == clJobs[j].aborted /\ clAbortRef # j

\* C2: once a newer fetch was issued for the slot, no step of the older,
\* cancelled job changes the overlay: its layer is never created, attached
\* or removed, whether or not the transport honored the abort signal.
C2_SupersededFetchHasNoEffect ==
    [][\A j \in Ids :
          (Superseded(j) /\ Steps(j)) => UNCHANGED <<clLayerRef, clLayer, clAttached>>]_vars

\* C4: a swap never leaves the map without an overlay: when a job commits
\* its image while a layer is attached, a layer is attached afterwards.
C4_NoFlickerSwap ==
    [][\A j \in Ids :
          (clJobs[j].stage = "decode" /\ clJobs'[j].stage = "done" /\ clAttached # {})
             => clAttached' # {}]_vars

\* C5: when the render that was triggered last fails (the fetch rejects or
\* the payload does not decode) while the composite is shown, the overlay
\* that was attached when it was triggered is still attached.
C5_FailedRenderKeepsOverlay ==
    [][\A j \in Ids :
          (/\ clJobs[j].stage \in {"fetch", "decode"}
           /\ clJobs'[j].stage \in {"rejected", "undecodable"}
           /\ clNextId = j + 1
           /\ clPhase = "mounted"
           /\ showCompositeLayer)
             => clJobs[j].shown \subseteq clAttached']_vars

\* C6: every blob URL is revoked exactly once: never twice, and once when
\* its image was replaced by a newer job's image or the component unmounted.
C6_BlobRevokedExactlyOnce ==
    \A u \in Ids :
        /\ clRevoked[u] <= 1
        /\ HasBlobUrl(u) =>
              ((\/ clPhase = "unmounted"
                \/ /\ clJobs[u].stage = "done"
                   /\ clLayerRef \notin {0, u}
                   /\ clJobs[clLayerRef].stage = "done")
                 => clRevoked[u] = 1)

\* C10: fewer than two scene identifiers never make a composite: one
\* identifier yields the single-lock rule, and no composite export request
\* is issued for fewer than two identifiers.
C10_CompositeNeedsTwoScenes ==
    /\ Len(compositeSceneIds) = 1 =>
          compositeMosaicRule(compositeSceneIds, compositeMethod)
             = getLockRasterMosaicRule(compositeSceneIds[1])
    /\ \A j \in Ids : Issued(j) => Len(clJobs[j].ids) >= 2

(***************************************************************************)
(* Claims on the capture workflows.                                         *)
(***************************************************************************)
\* workflow w still runs
Running(W, w) == W[w].pc \in Awaiting
\* workflow w ended, in success or in failure
Ended(W, w) == W[w].pc \in {"done", "failed"}
\* the workflows started for capture request q
WorkflowsOf(q) == {w \in WorkflowIds : capW[w].req = q}
\* what workflow w did: it took the snapshot, wrote the image, cleared the id
Shot(w) == capW[w].image # NoImage
Stored(w) == capW[w].stored
Cleared(w) == capW[w].cleared
\* an overlay is on the map: the composite layer, the scene's imagery layer
\* or, for a custom renderer, the custom renderer image overlay
OverlayPresent ==
    \/ capLayer # 0
    \/ ~useCustomOverlay(capRasterFunction) /\ ilLayer # 0
    \/ useCustomOverlay(capRasterFunction) /\ capOverlay
\* a capture is pending with everything a capture needs
CaptureDue ==
    /\ pendingScreenshotRendererId # 0
    /\ OverlayPresent
    /\ capMapView
    /\ firebaseUser # 0
\* a workflow was started for the current capture request
CaptureStarted == \E w \in WorkflowIds : capW[w].req = capReq /\ capW[w].pc # "none"

\* C3: whenever a capture workflow ends, by success or by a failure at any
\* of its stages, the pending renderer id is null; this includes the
\* workflow that handleCaptureScreenshot runs.
C3_EndedWorkflowClearsPending ==
    [][\A w \in WorkflowIds :
          (Running(capW, w) /\ Ended(capW', w)) => pendingScreenshotRendererId' = 0]_vars

\* C7: while a workflow of the pending capture still runs the pending id is
\* not overwritten by another request, and no two workflows of different
\* capture requests run at the same time.
C7_OneCaptureInProgress ==
    [][/\ (/\ pendingScreenshotRendererId # 0
           /\ \E w \in WorkflowIds : Running(capW, w) /\ capW[w].req = capReq)
             => pendingScreenshotRendererId' \in {pendingScreenshotRendererId, 0}
       /\ \A v, w \in WorkflowIds :
             (Running(capW', v) /\ Running(capW', w)) => capW'[v].req = capW'[w].req]_vars

\* C8: for each capture request the snapshot is taken at most once, the
\* image is persisted at most once and the pending id is cleared at most
\* once, whatever re-runs the capture effects.
C8_CaptureAtMostOnce ==
    \A q \in 1..MaxRequests :
        /\ Cardinality({w \in WorkflowsOf(q) : Shot(w)}) <= 1
        /\ Cardinality({w \in WorkflowsOf(q) : Stored(w)}) <= 1
        /\ Cardinality({w \in WorkflowsOf(q) : Cleared(w)}) <= 1

\* C9: when a capture is pending while an overlay is present, the view is
\* available and a user is signed in, a capture workflow is eventually
\* started for it (or the capture stops being due), also when the overlay
\* is the custom renderer image overlay.
C9_CaptureEventuallyStarts == CaptureDue ~> (CaptureStarted \/ ~CaptureDue)

C12_LockRuleForEveryId ==
    /\ mrLockRule.method = "lock-raster"
    /\ mrLockRule.lockRasterIds = <<mrObjectId>>
    /\ mrLockRule.ascending = FALSE
    /\ mrLockRule.where = {mrObjectId}

\* C12 amended: for every id other than 0, getLockRasterMosaicRule(id) is
\* that lock-raster rule; getLockRasterMosaicRule(0) is null.
C12_LockRuleForNonZeroId ==
    IF mrObjectId # 0 THEN C12_LockRuleForEveryId ELSE mrLockRule = NoRule

\* the spec's scenario: the rule locks to scene 2969545
C12_Witness ==
    /\ mrObjectId = 2969545
    /\ mrLockRule.lockRasterIds = <<2969545>>
    /\ mrLockRule.where = {2969545}

\* C13 as stated: once the serializer has run, its text is well-formed JSON
\* and decodes to the value it was given.
C13_RoundTrip ==
    out # <<>> => JSONParse(out)[1] /\ SameJSON(JSONParse(out)[2], rule)

\* the requests of a slot that are in flight with an abort token that was
\* not signalled
LiveRequests(jobs, ids) == {j \in ids : jobs[j].stage = "fetch" /\ ~jobs[j].aborted}

\* C14: in every state at most one request of the composite layer's slot,
\* and at most one of the image overlay's slot, is in flight with an abort
\* token that was not signalled, and it is the request of the slot's current
\* abort controller: every earlier one was signalled when it was replaced.
C14_OneLiveRequest ==
    /\ LiveRequests(clJobs, Ids) \subseteq {clAbortRef}
    /\ LiveRequests(ovJobs, OvIds) \subseteq {ovAbortRef}

C14_Witness ==
    /\ clJobs[1].stage = "fetch" /\ clJobs[1].aborted
    /\ clJobs[2].stage = "fetch" /\ ~clJobs[2].aborted

C14_WitnessOverlay ==
    /\ ovJobs[1].stage = "fetch" /\ ovJobs[1].aborted
    /\ ovJobs[2].stage = "fetch" /\ ~ovJobs[2].aborted

\* C15 as stated: at most one layer created by the slot is attached, and an
\* attached layer is the slot's current one (layerRef.current), for the
\* composite layer and for the image overlay.
C15_OneOverlayAttached ==
    /\ clAttached \subseteq {clLayerRef}
    /\ ovAttached \subseteq {ovLayerRef}

\* C16 as stated: once the component is unmounted, no layer it created is
\* attached, no request of it is in flight with an unsignalled abort token,
\* and every blob URL it created has been revoked; for the image overlay
\* and for the composite layer.
C16_TeardownReleasesAll ==
    /\ ovPhase = "unmounted" =>
          /\ ovAttached = {}
          /\ LiveRequests(ovJobs, OvIds) = {}
          /\ ovBlobUrls = {}
    /\ clPhase = "unmounted" =>
          /\ clAttached = {}
          /\ LiveRequests(clJobs, Ids) = {}
          /\ \A u \in Ids : HasBlobUrl(u) => clRevoked[u] >= 1

\* C17 as stated: a render triggered while the view has no extent or no
\* size (the call ends at "Skip fetch") leaves the requests that are in
\* flight running, their abort tokens as they were, and leaves the loading
\* flag as it was; for the image overlay and for the composite layer.
C17_SkippedRenderIsNoOp ==
    [][/\ \A n \in OvIds :
            (ovJobs[n].stage = "none" /\ ovJobs'[n].stage = "skipped") =>
                /\ \A j \in OvIds : ovJobs[j].stage = "fetch" => ovJobs'[j] = ovJobs[j]
                /\ ovLoading' = ovLoading
       /\ \A n \in Ids :
            (clJobs[n].stage = "none" /\ clJobs'[n].stage = "skipped") =>
                \A j \in Ids : clJobs[j].stage = "fetch" => clJobs'[j] = clJobs[j]]_vars

\* C18 as stated: a layer made from a fetched payload is the slot's layer
\* only if the payload was decoded into an image; a payload that is no
\* image never becomes the overlay.  For the image overlay and for the
\* composite layer's MediaLayers.
C18_SwapOnlyAfterDecode ==
    /\ \A j \in OvIds : (ovLayerRef = j \/ j \in ovAttached) => ovJobs[j].image = "image"
    /\ \A j \in Ids :
          (clJobs[j].stage # "imagery" /\ (clLayerRef = j \/ j \in clAttached))
              => clJobs[j].stage = "done"

\* C19 as stated: in the text of JSON.stringify(normalizeRasterFunctionOrder(
\* rule)) every object that has a rasterFunction key, at every depth, in a
\* top-level array and in arrays nested in arrays, writes that key first,
\* as the text of createOrderedRenderingRuleString does.
C19_NormalizedRasterFunctionFirst ==
    normalizedOut # <<>> =>
        \A i \in 1..Len(normalizedOut) :
            (/\ normalizedOut[i] = P("{")
             /\ \E k \in KeysOfObjectAt(normalizedOut, i) : normalizedOut[k] = <<"K", RF>>)
                => normalizedOut[i + 1] = <<"K", RF>>

\* C20 as stated: a workflow that took the snapshot is a run of
\* handleLayerUpdate that waited for the layer, then passed the view's
\* check while the view was not updating, then waited for the settle
\* delay; no workflow takes the snapshot without the convergence check.
C20_SnapshotAfterConvergence ==
    \A w \in WorkflowIds :
        Shot(w) => capW[w].comp \in {"composite", "scene"} /\ capW[w].converged

\* C21 as stated: no media layer of the composite slot is attached to the
\* group layer while the blob URL of its image is already revoked.
C21_NoRevokeWhileAttached ==
    \A j \in Ids : (j \in clAttached /\ HasBlobUrl(j)) => clRevoked[j] = 0

C23_RegistryUpdatedWhenWriteFails ==
    [][\A w \in WorkflowIds :
          (capW[w].pc = "store" /\ capW'[w].pc = "failed") =>
              customRenderers'[capW[w].id] = capW[w].image]_vars

\* C24: compositeSceneIds holds no scene identifier twice, whatever plain
\* clicks, Ctrl/Cmd clicks and Shift clicks handleSceneSelection handled.
C24_SelectionWithoutDuplicates ==
    \A i, j \in 1..Len(mrSelection) : mrSelection[i] = mrSelection[j] => i = j

\* a Shift click extended a selection over a range that held a selected scene
C24_Witness ==
    /\ mrClick = "shift"
    /\ mrSelection = <<102, 103, 101>>

\* C25 as stated: while no user is signed in, the custom renderer list of
\* the store is empty, also after a fetch started for the previous user
\* resolves.
C25_ListEmptyWhileLoggedOut ==
    firebaseUser = 0 => DOMAIN customRenderers = {}

\* C26 as stated: a dispatch of projectSelected that changes the selected
\* project id empties bookmarks and sets selectedBookmarkId to null; one
\* with the id already selected leaves both as they were.
C26_ProjectSelectedClearsBookmarks ==
    [][bmLast' = "projectSelected" =>
          IF selectedProjectId' # selectedProjectId
          THEN bookmarks' = {} /\ selectedBookmarkId' = 0
          ELSE UNCHANGED <<bookmarks, selectedBookmarkId>>]_vars

\* C27 as stated: while a call of fetchImage that was not cancelled awaits
\* its response, the value last passed to onLoadingChange is true.
C27_LoadingWhileFetchInFlight ==
    (\E j \in OvIds : ovJobs[j].stage = "fetch" /\ ~ovJobs[j].aborted) => ovLoading

\* C28 as stated: no step taken while showCompositeLayer is false attaches
\* the media layer of a request to the group layer; a request that was in
\* flight when the composite was hidden attaches nothing when it completes.
C28_NothingAttachedWhileHidden ==
    [][~showCompositeLayer' =>
          \A j \in Ids : (HasBlobUrl(j)' /\ j \in clAttached') => j \in clAttached]_vars

\* C29 as stated: a snapshot stored under a renderer id shows the map as
\* drawn with that renderer: it was taken while that renderer was the
\* selected one; when the selection changed before the snapshot was taken,
\* nothing is stored under the id.
C29_SnapshotShowsItsRenderer ==
    \A w \in WorkflowIds : Stored(w) => capW[w].image = <<capW[w].id>>

\* C30 as stated: pendingScreenshotRendererId is null or the id of a
\* renderer of customRenderers.
C30_PendingIdRefersToRenderer ==
    pendingScreenshotRendererId = 0 \/ pendingScreenshotRendererId \in DOMAIN customRenderers

====
